---- MODULE Spec2Model ----
(***************************************************************************)
(* thoth-solver, thoth/solver/python/python.py: the dependency graph       *)
(* builder (_do_resolve_index), the environment probe                      *)
(* (_install_requirement, _pipdeptree, _create_entry) and the multi-index  *)
(* orchestrator (resolve).                                                 *)
(*                                                                         *)
(* Python values are rendered as follows: a list or a deque is a sequence, *)
(* a dict is a record, a tuple is a TLA+ tuple, and an Optional value is a *)
(* sequence of length 0 (None) or 1.                                       *)
(***************************************************************************)
EXTENDS FiniteSets, Naturals, Sequences, TLC

(***************************************************************************)
(* Bounds of the explored inputs.                                          *)
(***************************************************************************)
MaxReqs == 2
MaxIndexes == 2
MaxFaults == 1

(***************************************************************************)
(* The world outside python.py: two package indexes, three distributions.  *)
(***************************************************************************)
Urls == {"idx1", "idx2"}
Keys == {"foo", "my-pkg", "pip"}
KeyOrder == <<"foo", "my-pkg", "pip">>
Names == {"foo", "Foo", "my_pkg", "pip"}
Specs == {"", "==1", ">=1", ">=2", ">=1,<3"}
RequirementPool == {"foo>=1,<3", "foo==1", "pip>=2", "!bad"}
ExcludePool == {{}, {"foo"}}
\* An accepted and a rejected python_version; 2 and 3 differ only in the
\* name of the interpreter (line 171).
PythonVersions == {3, 4}

\* str.lower() on the names of this world.
Lower(s) == IF s = "Foo" THEN "foo" ELSE s

\* The key under which pip files a distribution (PEP 503 normalisation).
CanonicalKey(name) == IF name = "my_pkg" THEN "my-pkg" ELSE Lower(name)

\* The versions each index publishes, oldest first.
Published(url, key) ==
    CASE url = "idx1" /\ key = "foo" -> <<"1", "2">>
      [] url = "idx1" /\ key = "pip" -> <<"1">>
      [] url = "idx1" /\ key = "my-pkg" -> <<"1">>
      [] url = "idx2" /\ key = "foo" -> <<"1">>
      [] url = "idx2" /\ key = "pip" -> <<"1", "2">>
      [] OTHER -> <<>>

\* Does version v satisfy the range expression spec.
Satisfies(v, spec) ==
    CASE spec = "" -> TRUE
      [] spec = "==1" -> v = "1"
      [] spec = ">=1" -> TRUE
      [] spec = ">=2" -> v = "2"
      [] spec = ">=1,<3" -> TRUE
      [] OTHER -> FALSE

\* The requirements a distribution declares once installed.
Requires(key, version) ==
    CASE key = "foo" /\ version = "1" ->
            <<[package_name |-> "pip", required_version |-> ">=1"]>>
      [] key = "foo" /\ version = "2" ->
            <<[package_name |-> "Foo", required_version |-> "==1"],
              [package_name |-> "my_pkg", required_version |-> ""]>>
      [] key = "pip" /\ version = "2" ->
            <<[package_name |-> "foo", required_version |-> "==1"]>>
      [] OTHER -> <<>>

\* What "virtualenv" seeds into the environment.
VenvSeed == [k \in Keys |-> IF k = "pip" THEN <<"1">> ELSE <<>>]

(***************************************************************************)
(* Sequence helpers.                                                       *)
(***************************************************************************)
RECURSIVE SelectSeqBy(_, _)
SelectSeqBy(s, S) ==
    IF s = <<>> THEN <<>>
    ELSE IF Head(s) \in S THEN <<Head(s)>> \o SelectSeqBy(Tail(s), S)
         ELSE SelectSeqBy(Tail(s), S)

RECURSIVE Flatten(_)
Flatten(ss) == IF ss = <<>> THEN <<>> ELSE Head(ss) \o Flatten(Tail(ss))

RECURSIVE Join(_, _)
Join(sep, ss) ==
    IF ss = <<>> THEN ""
    ELSE IF Len(ss) = 1 THEN ss[1]
         ELSE ss[1] \o sep \o Join(sep, Tail(ss))

Range(s) == {s[i] : i \in DOMAIN s}
Front(s) == SubSeq(s, 1, Len(s) - 1)
Last(s) == s[Len(s)]
Count(s, x) == Cardinality({i \in DOMAIN s : s[i] = x})

SeqsUpTo(S, n) == UNION {[1..k -> S] : k \in 0..n}

\* The sequences of at most n distinct elements of S.
DistinctSeqsUpTo(S, n) ==
    {s \in SeqsUpTo(S, n) : \A i, j \in DOMAIN s : i # j => s[i] # s[j]}

(***************************************************************************)
(* External collaborators of this repository that python.py imports.       *)
(***************************************************************************)
\* PythonDependencyParser.parse_python
ParsePython(requirement) ==
    CASE requirement = "foo>=1,<3" ->
            [ok |-> TRUE, name |-> "foo", spec |-> <<<<">=", "1">>, <<"<", "3">>>>]
      [] requirement = "foo==1" ->
            [ok |-> TRUE, name |-> "foo", spec |-> <<<<"==", "1">>>>]
      [] requirement = "pip>=2" ->
            [ok |-> TRUE, name |-> "pip", spec |-> <<<<">=", "2">>>>]
      [] OTHER ->
            [ok |-> FALSE, details |-> "Invalid requirement"]

\* PythonSolver.solve([requirement], all_versions=True) of the solver bound
\* to the index url; failed is an injected failure of the index access.
Solve(url, requirement, failed) ==
    LET parsed == CHOOSE p \in Names \X Specs : p[1] \o p[2] = requirement
        found == SelectSeqBy(Published(url, CanonicalKey(parsed[1])),
                             {v \in {"1", "2"} : Satisfies(v, parsed[2])})
    IN IF failed THEN [raised |-> "Exception"]
       ELSE IF found = <<>> THEN [raised |-> "NotFound"]
       ELSE [raised |-> "", packages |-> <<parsed[1]>>, versions |-> <<found>>]

\* Source.get_package_hashes
GetPackageHashes(url, name, version) ==
    <<[name |-> CanonicalKey(name) \o "-" \o version \o ".tar.gz",
       sha256 |-> "sha256:" \o CanonicalKey(name) \o "-" \o version]>>

(***************************************************************************)
(* The installation environment: for every key the installed version, as   *)
(* an Optional.  "pipdeptree --json" lists the installed distributions.     *)
(***************************************************************************)
Installed(env, name) ==
    IF env[CanonicalKey(name)] = <<>> THEN "?" ELSE env[CanonicalKey(name)][1]

PipdeptreeEntry(env, key) ==
    [package |-> [key |-> key, package_name |-> key,
                  installed_version |-> env[key][1]],
     dependencies |->
        [i \in DOMAIN Requires(key, env[key][1]) |->
            LET r == Requires(key, env[key][1])[i]
            IN [key |-> CanonicalKey(r.package_name),
                package_name |-> r.package_name,
                installed_version |-> Installed(env, r.package_name),
                required_version |-> r.required_version]]]

PipdeptreeOutput(env) ==
    LET present == SelectSeqBy(KeyOrder, {k \in Keys : env[k] # <<>>})
    IN [i \in DOMAIN present |-> PipdeptreeEntry(env, present[i])]

(***************************************************************************)
(* python.py                                                               *)
(***************************************************************************)
\* _create_entry: source is an Optional index url.
_create_entry(entry, source) ==
    LET dependencies ==
            [i \in DOMAIN entry.dependencies |->
                [package_name |-> entry.dependencies[i].package_name,
                 required_version |-> entry.dependencies[i].required_version]]
        hashes == GetPackageHashes(source[1], entry.package.package_name,
                                   entry.package.installed_version)
    IN IF source # <<>>
       THEN [package_name |-> entry.package.package_name,
             package_version |-> entry.package.installed_version,
             index_url |-> source[1],
             sha256 |-> [i \in DOMAIN hashes |-> hashes[i].sha256],
             dependencies |-> dependencies]
       ELSE [package_name |-> entry.package.package_name,
             package_version |-> entry.package.installed_version,
             dependencies |-> dependencies]

\* _get_environment_details
_get_environment_details(env) ==
    [i \in DOMAIN PipdeptreeOutput(env) |->
        _create_entry(PipdeptreeOutput(env)[i], <<>>)]

\* _pipdeptree with a package name: the first entry whose key matches,
\* compared in lower case, as an Optional.
_pipdeptree(env, package_name) ==
    LET output == PipdeptreeOutput(env)
        hits == {i \in DOMAIN output :
                    Lower(output[i].package.key) = Lower(package_name)}
    IN IF hits = {} THEN <<>>
       ELSE <<output[CHOOSE i \in hits : \A j \in hits : i <= j]>>

\* _get_dependency_specification
_get_dependency_specification(dep_spec) ==
    Join(",", [i \in DOMAIN dep_spec |-> dep_spec[i][1] \o dep_spec[i][2]])

\* _resolve_versions: both failures of the solver give the empty list.
_resolve_versions(url, package_name, version_spec, failed) ==
    LET resolved_versions == Solve(url, package_name \o version_spec, failed)
    IN IF resolved_versions.raised = "NotFound" THEN <<>>
       ELSE IF resolved_versions.raised # "" THEN <<>>
       ELSE resolved_versions.versions[1]

\* One external command, as recorded in ops.
Cmd(c, ok) == [cmd |-> c, ok |-> ok]

\* "pip install --force-reinstall --no-deps name==version --index-url url"
PipInstallOk(url, name, version, fault) ==
    /\ fault # "install"
    /\ version \in Range(Published(url, CanonicalKey(name)))

\* InstallEnter with the install run as raise_on_error=False: a failed
\* install is not raised and the body of the with statement runs.
InstallEnter_NoRaise(env, package, version, index_url, fault) ==
    IF fault = "previous"
    THEN [raised |-> TRUE, env |-> env, previous_version |-> <<>>,
          ops |-> <<Cmd("pipdeptree", FALSE)>>]
    ELSE IF ~PipInstallOk(index_url, package, version, fault)
    THEN [raised |-> FALSE, env |-> env,
          previous_version |-> _pipdeptree(env, package),
          ops |-> <<Cmd("pipdeptree", TRUE), Cmd("install", FALSE)>>]
    ELSE [raised |-> FALSE,
          env |-> [env EXCEPT ![CanonicalKey(package)] = <<version>>],
          previous_version |-> _pipdeptree(env, package),
          ops |-> <<Cmd("pipdeptree", TRUE), Cmd("install", TRUE)>>]

\* _install_requirement up to the yield (lines 69-79): the previous version
\* is recorded, then the requirement is installed.
InstallEnter(env, package, version, index_url, fault) ==
    IF fault = "previous"
    THEN [raised |-> TRUE, env |-> env, previous_version |-> <<>>,
          ops |-> <<Cmd("pipdeptree", FALSE)>>]
    ELSE IF ~PipInstallOk(index_url, package, version, fault)
    THEN [raised |-> TRUE, env |-> env,
          previous_version |-> _pipdeptree(env, package),
          ops |-> <<Cmd("pipdeptree", TRUE), Cmd("install", FALSE)>>]
    ELSE [raised |-> FALSE,
          env |-> [env EXCEPT ![CanonicalKey(package)] = <<version>>],
          previous_version |-> _pipdeptree(env, package),
          ops |-> <<Cmd("pipdeptree", TRUE), Cmd("install", TRUE)>>]

\* InstallExit with the previous version ignored: always an uninstall.
InstallExit_AlwaysUninstall(env, package, previous_version, fault) ==
    IF fault = "restore"
    THEN [env |-> env, ops |-> <<Cmd("uninstall", FALSE)>>]
    ELSE [env |-> [env EXCEPT ![CanonicalKey(package)] = <<>>],
          ops |-> <<Cmd("uninstall", TRUE)>>]

\* _install_requirement after the yield (lines 83-111), clean being True:
\* the previous version is reinstalled, or the package is removed.
InstallExit(env, package, previous_version, fault) ==
    IF previous_version # <<>>
    THEN IF fault = "restore"
         THEN [env |-> env, ops |-> <<Cmd("reinstall", FALSE)>>]
         ELSE [env |-> [env EXCEPT ![CanonicalKey(package)] =
                            <<previous_version[1].package.installed_version>>],
               ops |-> <<Cmd("reinstall", TRUE)>>]
    ELSE IF fault = "restore"
         THEN [env |-> env, ops |-> <<Cmd("uninstall", FALSE)>>]
         ELSE [env |-> [env EXCEPT ![CanonicalKey(package)] = <<>>],
               ops |-> <<Cmd("uninstall", TRUE)>>]

\* Probe with the restoring command run as raise_on_error=True: its failure
\* reaches line 221 as a CommandError.
Probe_RestoreRaises(env, package_name, package_version, index_url, fault) ==
    LET enter == InstallEnter(env, package_name, package_version, index_url, fault)
        exit == InstallExit(enter.env, package_name, enter.previous_version, fault)
    IN IF enter.raised
       THEN [raised |-> TRUE, package_info |-> <<>>, env |-> enter.env,
             ops |-> enter.ops]
       ELSE IF fault = "inspect"
       THEN [raised |-> TRUE, package_info |-> <<>>, env |-> enter.env,
             ops |-> enter.ops \o <<Cmd("pipdeptree", FALSE)>>]
       ELSE [raised |-> fault = "restore",
             package_info |-> IF fault = "restore" THEN <<>>
                              ELSE _pipdeptree(enter.env, package_name),
             env |-> exit.env,
             ops |-> enter.ops \o <<Cmd("pipdeptree", TRUE)>> \o exit.ops]

\* The with statement of lines 218-220: enter, query the inventory, exit.
\* An exception raised in the body is thrown into the generator at its
\* yield, which has no handler: the generator ends there.
\* The result: raised (a CommandError reached line 221), the Optional
\* package_info, the environment left behind and the commands issued.
Probe(env, package_name, package_version, index_url, fault) ==
    LET enter == InstallEnter(env, package_name, package_version, index_url, fault)
        exit == InstallExit(enter.env, package_name, enter.previous_version, fault)
    IN IF enter.raised
       THEN [raised |-> TRUE, package_info |-> <<>>, env |-> enter.env,
             ops |-> enter.ops]
       ELSE IF fault = "inspect"
       THEN [raised |-> TRUE, package_info |-> <<>>, env |-> enter.env,
             ops |-> enter.ops \o <<Cmd("pipdeptree", FALSE)>>]
       ELSE [raised |-> FALSE,
             package_info |-> _pipdeptree(enter.env, package_name),
             env |-> exit.env,
             ops |-> enter.ops \o <<Cmd("pipdeptree", TRUE)>> \o exit.ops]

(***************************************************************************)
(* Lines 262-289 for one entry: every dependency is resolved by every      *)
(* solver, in the order of all_solvers; failed is the set of (dependency,  *)
(* solver) positions whose resolution fails.                               *)
(***************************************************************************)
\* ResolvedVersions keeping only the indexes that gave versions.
ResolvedVersions_NonEmpty(dependency, d, all_solvers, failed) ==
    LET Gave(r) == r.versions # <<>>
    IN SelectSeq([s \in DOMAIN all_solvers |->
                    [versions |-> _resolve_versions(all_solvers[s],
                                        dependency.package_name,
                                        dependency.required_version,
                                        <<d, s>> \in failed),
                     index |-> all_solvers[s]]], Gave)

ResolvedVersions(dependency, d, all_solvers, failed) ==
    [s \in DOMAIN all_solvers |->
        [versions |-> _resolve_versions(all_solvers[s], dependency.package_name,
                                        dependency.required_version,
                                        <<d, s>> \in failed),
         index |-> all_solvers[s]]]

ResolveDependencies(entry, all_solvers, failed) ==
    [entry EXCEPT !.dependencies =
        [d \in DOMAIN entry.dependencies |->
            [package_name |-> entry.dependencies[d].package_name,
             required_version |-> entry.dependencies[d].required_version,
             resolved_versions |->
                ResolvedVersions(entry.dependencies[d], d, all_solvers, failed)]]]

\* Discovered looking only at the versions of the first solver.
Discovered_FirstIndexOnly(entry, transitive) ==
    IF ~transitive THEN <<>>
    ELSE Flatten([d \in DOMAIN entry.dependencies |->
            [v \in DOMAIN entry.dependencies[d].resolved_versions[1].versions |->
                <<entry.dependencies[d].package_name,
                  entry.dependencies[d].resolved_versions[1].versions[v]>>]])

\* Discovered without the test of line 281.
Discovered_Always(entry, transitive) ==
    Flatten([d \in DOMAIN entry.dependencies |->
        Flatten([s \in DOMAIN entry.dependencies[d].resolved_versions |->
            [v \in DOMAIN entry.dependencies[d].resolved_versions[s].versions |->
                <<entry.dependencies[d].package_name,
                  entry.dependencies[d].resolved_versions[s].versions[v]>>]])])

\* The (name, version) pairs that lines 284-289 look at, in loop order.
Discovered(entry, transitive) ==
    IF ~transitive THEN <<>>
    ELSE Flatten([d \in DOMAIN entry.dependencies |->
            Flatten([s \in DOMAIN entry.dependencies[d].resolved_versions |->
                [v \in DOMAIN entry.dependencies[d].resolved_versions[s].versions |->
                    <<entry.dependencies[d].package_name,
                      entry.dependencies[d].resolved_versions[s].versions[v]>>]])])

\* Admit without the membership test of line 286.
RECURSIVE Admit_Unchecked(_, _, _)
Admit_Unchecked(found, seen, q) ==
    IF found = <<>> THEN [packages_seen |-> seen, queue |-> q]
    ELSE Admit_Unchecked(Tail(found), seen \cup {Head(found)}, Append(q, Head(found)))

\* Admit without line 287: the pair is queued and not marked seen.
RECURSIVE Admit_Unmarked(_, _, _)
Admit_Unmarked(found, seen, q) ==
    IF found = <<>> THEN [packages_seen |-> seen, queue |-> q]
    ELSE IF Head(found) \notin seen
         THEN Admit_Unmarked(Tail(found), seen, Append(q, Head(found)))
         ELSE Admit_Unmarked(Tail(found), seen, q)

\* Admit with appendleft in place of append at line 289.
RECURSIVE Admit_Left(_, _, _)
Admit_Left(found, seen, q) ==
    IF found = <<>> THEN [packages_seen |-> seen, queue |-> q]
    ELSE IF Head(found) \notin seen
         THEN Admit_Left(Tail(found), seen \cup {Head(found)}, <<Head(found)>> \o q)
         ELSE Admit_Left(Tail(found), seen, q)

\* Lines 286-289 over the discovered pairs: unseen pairs are marked seen and
\* appended to the queue.
RECURSIVE Admit(_, _, _)
Admit(found, seen, q) ==
    IF found = <<>> THEN [packages_seen |-> seen, queue |-> q]
    ELSE IF Head(found) \notin seen
         THEN Admit(Tail(found), seen \cup {Head(found)}, Append(q, Head(found)))
         ELSE Admit(Tail(found), seen, q)

\* SeedKeys with only the last resolved version kept.
SeedKeys_Latest(name, resolved_versions) ==
    IF resolved_versions = <<>> THEN <<>>
    ELSE <<<<name, resolved_versions[Len(resolved_versions)]>>>>

\* Lines 208-211: the versions resolved for a seed requirement.
SeedKeys(name, resolved_versions) ==
    [i \in DOMAIN resolved_versions |-> <<name, resolved_versions[i]>>]

\* Excluded with the exclusion set ignored.
Excluded_Never(name, exclude) == name \in {}

\* Line 195
Excluded(name, exclude) == name \in exclude

\* Lines 189-192
UnparsedRecord(requirement, details) ==
    [requirement |-> requirement, details |-> details]

\* UnresolvedRecord with the range and the index exchanged.
UnresolvedRecord_Exchanged(name, version_spec, index_url) ==
    [package_name |-> name, version_spec |-> index_url, index |-> version_spec]

\* Lines 202-206
UnresolvedRecord(name, version_spec, index_url) ==
    [package_name |-> name, version_spec |-> version_spec, index |-> index_url]

\* ErrorRecord with the name and the version exchanged.
ErrorRecord_Exchanged(package_name, index_url, package_version, type) ==
    [package_name |-> package_version, index |-> index_url,
     version |-> package_name, type |-> type,
     details |-> [message |-> "Command exited with non-zero status code"]]

\* Lines 226-232 and 236-244
ErrorRecord(package_name, index_url, package_version, type) ==
    [package_name |-> package_name, index |-> index_url,
     version |-> package_version, type |-> type,
     details |-> IF type = "command_error"
                 THEN [message |-> "Command exited with non-zero status code"]
                 ELSE [message |-> "Failed to get information about installed package, probably not site package"]]

\* Lines 291-297
PassResult(tree, errs, unp, unr, environment) ==
    [tree |-> tree, errors |-> errs, unparsed |-> unp, unresolved |-> unr,
     environment |-> environment]

(***************************************************************************)
(* State.  The first five variables are the arguments of resolve; pc is    *)
(* the position of the call; the others are the locals of resolve and of   *)
(* the running _do_resolve_index, the environment on disk, and history     *)
(* variables: faults counts the injected failures, ops holds the external  *)
(* commands of the last step, pushed and popped the keys appended to and   *)
(* popped from the queue in this pass, ran the index of each pass begun.   *)
(***************************************************************************)
VARIABLES requirements, index_urls, python_version, exclude_packages, transitive,
          pc, exception, all_solvers, solver_i, result,
          python_bin, packages_seen, packages, errors, unresolved, unparsed,
          queue, environment_details, req_i, package_info,
          env, faults, ops, pushed, popped, ran

args == <<requirements, index_urls, python_version, exclude_packages, transitive>>
locals == <<python_bin, packages_seen, packages, errors, unresolved, unparsed,
            queue, environment_details, req_i, package_info>>
history == <<pushed, popped, ran>>
vars == <<args, pc, exception, all_solvers, solver_i, result, locals, env,
          faults, ops, history>>

index_url == all_solvers[solver_i]

Init ==
    /\ requirements \in DistinctSeqsUpTo(RequirementPool, MaxReqs)
    /\ index_urls \in DistinctSeqsUpTo(Urls, MaxIndexes)
    /\ python_version \in PythonVersions
    /\ exclude_packages \in ExcludePool
    /\ transitive \in BOOLEAN
    /\ pc = "resolve"
    /\ exception = ""
    /\ all_solvers = <<>>
    /\ solver_i = 0
    /\ result = <<>>
    /\ python_bin = ""
    /\ packages_seen = {}
    /\ packages = <<>>
    /\ errors = <<>>
    /\ unresolved = <<>>
    /\ unparsed = <<>>
    /\ queue = <<>>
    /\ environment_details = <<>>
    /\ req_i = 0
    /\ package_info = <<>>
    /\ env = [k \in Keys |-> <<>>]
    /\ faults = 0
    /\ ops = <<>>
    /\ pushed = <<>>
    /\ popped = <<>>
    /\ ran = <<>>

\* An exception leaves the call: nothing is returned.
Raise(e) ==
    /\ pc' = "raised"
    /\ exception' = e

\* resolve, lines 303-309: the precondition, then one solver per index.
Resolve ==
    /\ pc = "resolve"
    /\ IF python_version \in {2, 3}
       THEN /\ pc' = "passes"
            /\ all_solvers' = index_urls
            /\ UNCHANGED exception
       ELSE /\ Raise("AssertionError")
            /\ UNCHANGED all_solvers
    /\ ops' = <<>>
    /\ UNCHANGED <<args, solver_i, result, locals, env, faults, history>>

\* May one more failure be injected.
CanFail == faults < MaxFaults

\* "virtualenv -p python3 venv" seeds what the directory does not hold yet.
Virtualenv(e) == [k \in Keys |-> IF e[k] = <<>> THEN VenvSeed[k] ELSE e[k]]

\* PassSeen with the set of the earlier call kept.
PassSeen_Shared(earlier) == earlier

\* Line 176: packages_seen = set(), whatever an earlier call left.
PassSeen(earlier) == {}

\* resolve, lines 311-312, and _do_resolve_index, lines 169-182: the next
\* solver's pass begins; the environment is set up and the locals are fresh.
BeginPass ==
    /\ pc = "passes"
    /\ solver_i < Len(all_solvers)
    /\ \E fault \in {"none", "virtualenv", "pip"} :
        /\ fault # "none" => CanFail
        /\ faults' = IF fault = "none" THEN faults ELSE faults + 1
        /\ env' = IF fault = "virtualenv" THEN env ELSE Virtualenv(env)
        /\ ops' = IF fault = "virtualenv" THEN <<Cmd("virtualenv", FALSE)>>
                  ELSE <<Cmd("virtualenv", TRUE), Cmd("pip install pipdeptree", fault = "none")>>
        /\ IF fault = "none"
           THEN /\ pc' = "seed"
                /\ UNCHANGED exception
           ELSE Raise("CommandError")
    /\ solver_i' = solver_i + 1
    /\ python_bin' = IF python_version = 3 THEN "venv/bin/python3" ELSE "venv/bin/python2"
    /\ packages_seen' = PassSeen(packages_seen)
    /\ packages' = <<>>
    /\ errors' = <<>>
    /\ unresolved' = <<>>
    /\ unparsed' = <<>>
    /\ queue' = <<>>
    /\ req_i' = 1
    /\ pushed' = <<>>
    /\ popped' = <<>>
    /\ ran' = Append(ran, all_solvers[solver_i + 1])
    /\ UNCHANGED <<args, all_solvers, result, environment_details, package_info>>

\* SeedOutcome without the continue of line 193: the unparsable string goes
\* on to the resolution as a package name.
SeedOutcome_NoContinue(requirement, url, exclude, failed) ==
    LET dependency == ParsePython(requirement)
        version_spec == _get_dependency_specification(dependency.spec)
        resolved_versions == _resolve_versions(url, dependency.name, version_spec, failed)
    IN IF ~dependency.ok
       THEN [unparsed |-> <<UnparsedRecord(requirement, dependency.details)>>,
             unresolved |-> <<UnresolvedRecord(requirement, "", url)>>,
             keys |-> <<>>,
             ops |-> <<Cmd("parse", FALSE), Cmd("solve", TRUE)>>]
       ELSE IF Excluded(dependency.name, exclude)
       THEN [unparsed |-> <<>>, unresolved |-> <<>>, keys |-> <<>>,
             ops |-> <<Cmd("parse", TRUE)>>]
       ELSE IF resolved_versions = <<>>
       THEN [unparsed |-> <<>>,
             unresolved |-> <<UnresolvedRecord(dependency.name, version_spec, url)>>,
             keys |-> <<>>,
             ops |-> <<Cmd("parse", TRUE), Cmd("solve", ~failed)>>]
       ELSE [unparsed |-> <<>>, unresolved |-> <<>>,
             keys |-> SeedKeys(dependency.name, resolved_versions),
             ops |-> <<Cmd("parse", TRUE), Cmd("solve", TRUE)>>]

\* Lines 186-211 for one requirement: what it adds to unparsed, to
\* unresolved and to the queue, and the external calls made.
SeedOutcome(requirement, url, exclude, failed) ==
    LET dependency == ParsePython(requirement)
        version_spec == _get_dependency_specification(dependency.spec)
        resolved_versions == _resolve_versions(url, dependency.name, version_spec, failed)
    IN IF ~dependency.ok
       THEN [unparsed |-> <<UnparsedRecord(requirement, dependency.details)>>,
             unresolved |-> <<>>, keys |-> <<>>,
             ops |-> <<Cmd("parse", FALSE)>>]
       ELSE IF Excluded(dependency.name, exclude)
       THEN [unparsed |-> <<>>, unresolved |-> <<>>, keys |-> <<>>,
             ops |-> <<Cmd("parse", TRUE)>>]
       ELSE IF resolved_versions = <<>>
       THEN [unparsed |-> <<>>,
             unresolved |-> <<UnresolvedRecord(dependency.name, version_spec, url)>>,
             keys |-> <<>>,
             ops |-> <<Cmd("parse", TRUE), Cmd("solve", ~failed)>>]
       ELSE [unparsed |-> <<>>, unresolved |-> <<>>,
             keys |-> SeedKeys(dependency.name, resolved_versions),
             ops |-> <<Cmd("parse", TRUE), Cmd("solve", TRUE)>>]

\* Does the seed step of this requirement call the solver.
SeedSolves(requirement, exclude) ==
    /\ ParsePython(requirement).ok
    /\ ~Excluded(ParsePython(requirement).name, exclude)

\* _do_resolve_index, lines 184-211, one iteration of the loop.
Seed ==
    /\ pc = "seed"
    /\ req_i <= Len(requirements)
    /\ \E failed \in BOOLEAN :
        /\ failed => CanFail /\ SeedSolves(requirements[req_i], exclude_packages)
        /\ faults' = IF failed THEN faults + 1 ELSE faults
        /\ LET o == SeedOutcome(requirements[req_i], index_url, exclude_packages, failed)
           IN /\ unparsed' = unparsed \o o.unparsed
              /\ unresolved' = unresolved \o o.unresolved
              /\ packages_seen' = packages_seen \cup Range(o.keys)
              /\ queue' = queue \o o.keys
              /\ pushed' = pushed \o o.keys
              /\ ops' = o.ops
    /\ req_i' = req_i + 1
    /\ UNCHANGED <<args, pc, exception, all_solvers, solver_i, result, python_bin,
                   packages, errors, environment_details, package_info, env,
                   popped, ran>>

\* _do_resolve_index, line 213: the baseline inventory, outside any handler.
CaptureEnvironment ==
    /\ pc = "seed"
    /\ req_i > Len(requirements)
    /\ \E failed \in BOOLEAN :
        /\ failed => CanFail
        /\ faults' = IF failed THEN faults + 1 ELSE faults
        /\ ops' = <<Cmd("pipdeptree", ~failed)>>
        /\ IF failed
           THEN /\ Raise("CommandError")
                /\ UNCHANGED environment_details
           ELSE /\ pc' = "drain"
                /\ environment_details' = _get_environment_details(env)
                /\ UNCHANGED exception
    /\ UNCHANGED <<args, all_solvers, solver_i, result, python_bin, packages_seen,
                   packages, errors, unresolved, unparsed, queue, req_i,
                   package_info, env, history>>

\* The failures that can be injected into the probe of a key: a later step
\* can only fail when the steps before it were reached.
ProbeFaults(name, version, url) ==
    {"none", "previous"} \cup
    (IF version \in Range(Published(url, CanonicalKey(name)))
     THEN {"install", "inspect", "restore"} ELSE {})

\* _do_resolve_index, lines 215-245: pop a key, probe it, record an error
\* or hand the inventory entry to the expansion.
ProbeKey ==
    /\ pc = "drain"
    /\ queue # <<>>
    /\ LET package_name == Last(queue)[1]
           package_version == Last(queue)[2]
       IN \E fault \in ProbeFaults(package_name, package_version, index_url) :
            /\ fault # "none" => CanFail
            /\ faults' = IF fault = "none" THEN faults ELSE faults + 1
            /\ LET p == Probe(env, package_name, package_version, index_url, fault)
               IN /\ env' = p.env
                  /\ ops' = p.ops
                  /\ IF p.raised
                     THEN /\ errors' = Append(errors,
                                ErrorRecord(package_name, index_url, package_version, "command_error"))
                          /\ UNCHANGED <<pc, package_info>>
                     ELSE IF p.package_info = <<>>
                     THEN /\ errors' = Append(errors,
                                ErrorRecord(package_name, index_url, package_version, "not_site_package"))
                          /\ UNCHANGED <<pc, package_info>>
                     ELSE /\ package_info' = p.package_info
                          /\ pc' = "expand"
                          /\ UNCHANGED errors
    /\ queue' = Front(queue)
    /\ popped' = Append(popped, Last(queue))
    /\ UNCHANGED <<args, exception, all_solvers, solver_i, result, python_bin,
                   packages_seen, packages, unresolved, unparsed,
                   environment_details, req_i, pushed, ran>>

\* The (dependency, solver) positions of the resolutions made for an entry.
Resolutions(entry) ==
    {<<d, s>> : d \in DOMAIN entry.dependencies, s \in DOMAIN all_solvers}

\* _do_resolve_index, lines 247-289: the entry is created (the hash lookup
\* is outside any handler), appended to packages and its dependencies are
\* resolved at every index and, in transitive mode, admitted to the queue.
\* The commands of the step are the hash lookup and then one solver call per
\* dependency and solver, in loop order (lines 266-270).
Expand ==
    /\ pc = "expand"
    /\ \/ /\ CanFail
          /\ faults' = faults + 1
          /\ ops' = <<Cmd("hashes", FALSE)>>
          /\ Raise("Exception")
          /\ UNCHANGED <<packages, packages_seen, queue, package_info, pushed>>
       \/ \E failed \in SUBSET Resolutions(package_info[1]) :
            /\ Cardinality(failed) <= MaxFaults - faults
            /\ faults' = faults + Cardinality(failed)
            /\ LET entry == ResolveDependencies(
                                _create_entry(package_info[1], <<index_url>>),
                                all_solvers, failed)
                   admitted == Admit(Discovered(entry, transitive), packages_seen, queue)
               IN /\ packages' = Append(packages, entry)
                  /\ packages_seen' = admitted.packages_seen
                  /\ queue' = admitted.queue
                  /\ pushed' = pushed \o SubSeq(admitted.queue, Len(queue) + 1,
                                               Len(admitted.queue))
            /\ ops' = <<Cmd("hashes", TRUE)>> \o
                        Flatten([d \in DOMAIN package_info[1].dependencies |->
                            [s \in DOMAIN all_solvers |->
                                Cmd("solve", <<d, s>> \notin failed)]])
            /\ package_info' = <<>>
            /\ pc' = "drain"
            /\ UNCHANGED exception
    /\ UNCHANGED <<args, all_solvers, solver_i, result, python_bin, errors,
                   unresolved, unparsed, environment_details, req_i, env,
                   popped, ran>>

\* AppendResult inserting at the front.
AppendResult_Front(res, pass_result) == <<pass_result>> \o res

\* resolve, line 312
AppendResult(res, pass_result) == Append(res, pass_result)

\* _do_resolve_index, lines 291-297, and resolve, line 312: the queue is
\* empty, the pass returns and its result is appended.
EndPass ==
    /\ pc = "drain"
    /\ queue = <<>>
    /\ result' = AppendResult(result,
            PassResult(packages, errors, unparsed, unresolved, environment_details))
    /\ pc' = "passes"
    /\ ops' = <<>>
    /\ UNCHANGED <<args, exception, all_solvers, solver_i, locals, env, faults,
                   history>>

\* resolve, line 321
Return ==
    /\ pc = "passes"
    /\ solver_i = Len(all_solvers)
    /\ pc' = "returned"
    /\ ops' = <<>>
    /\ UNCHANGED <<args, exception, all_solvers, solver_i, result, locals, env,
                   faults, history>>

Next ==
    \/ Resolve
    \/ BeginPass
    \/ Seed
    \/ CaptureEnvironment
    \/ ProbeKey
    \/ Expand
    \/ EndPass
    \/ Return

Spec == Init /\ [][Next]_vars

TypeOK ==
    /\ pc \in {"resolve", "passes", "seed", "drain", "expand", "returned", "raised"}
    /\ faults \in 0..MaxFaults
    /\ solver_i \in 0..Len(all_solvers)
    /\ Len(result) <= Len(all_solvers)
    /\ packages_seen \subseteq Names \X {"1", "2"}
    /\ Range(queue) \subseteq packages_seen

(***************************************************************************)
(* Properties.                                                             *)
(***************************************************************************)
Cmds(o) == {o[i].cmd : i \in DOMAIN o}
RanOk(o, c) == \E i \in DOMAIN o : o[i].cmd = c /\ o[i].ok
Failed(o, c) == \E i \in DOMAIN o : o[i].cmd = c /\ ~o[i].ok

\* C1: within one pass no (name, version) pair is popped from the queue and
\* probed more than once, whatever the requirements are.
C1_NoKeyProbedTwice == \A k \in Range(popped) : Count(popped, k) = 1

\* C2: a probe whose initial install succeeded runs its restoration step
\* (reinstall of the previous version, or uninstall) before it returns,
\* whatever happened between install and restore.
C2_RestoredAfterInstall ==
    RanOk(ops, "install") => Cmds(ops) \cap {"reinstall", "uninstall"} # {}

\* C3: with python_version in {2, 3} no failure of the baseline inventory
\* capture, of a probe step or of the hash lookup leaves the call as an
\* exception.
C3_NoFailureAborts ==
    python_version \in {2, 3} =>
        ~(pc = "raised" /\ (Failed(ops, "pipdeptree") \/ Failed(ops, "hashes")))

\* C4: a probe that ends in a command error or in "not site package" appends
\* exactly one record for the popped key and this pass's index to errors,
\* appends nothing to tree, resolves and enqueues no dependency, and leaves
\* the traversal at the head of the loop with the rest of the queue.
FailedProbeStep ==
    /\ pc = "drain"
    /\ Len(popped') = Len(popped) + 1
    /\ pc' # "expand"

C4_FailedProbeRecordedOnce ==
    [][FailedProbeStep =>
        /\ Len(errors') = Len(errors) + 1
        /\ SubSeq(errors', 1, Len(errors)) = errors
        /\ Last(errors').package_name = Last(queue)[1]
        /\ Last(errors').version = Last(queue)[2]
        /\ Last(errors').index = all_solvers[solver_i]
        /\ Last(errors').type \in {"command_error", "not_site_package"}
        /\ Last(errors').type = "command_error" <=>
                (Failed(ops', "pipdeptree") \/ Failed(ops', "install"))
        /\ packages' = packages
        /\ packages_seen' = packages_seen
        /\ "solve" \notin Cmds(ops')
        /\ pushed' = pushed
        /\ queue' = Front(queue)
        /\ pc' = "drain"]_vars

C4_Witness ==
    /\ pc = "drain"
    /\ queue # <<>>
    /\ \E i, j \in DOMAIN errors :
        /\ errors[i].type = "not_site_package"
        /\ errors[j].type = "command_error"
    /\ Last(popped) = <<Last(errors).package_name, Last(errors).version>>

\* C5: when resolve returns, result holds exactly one PassResult per
\* configured index, the passes ran in the order of index_urls, and the
\* i-th PassResult is the one of the pass that installed from index_urls[i].
PassIndexes(pass_result) ==
    {pass_result.tree[i].index_url : i \in DOMAIN pass_result.tree}
    \cup {pass_result.errors[i].index : i \in DOMAIN pass_result.errors}
    \cup {pass_result.unresolved[i].index : i \in DOMAIN pass_result.unresolved}

C5_OneResultPerIndexInOrder ==
    pc = "returned" =>
        /\ Len(result) = Len(index_urls)
        /\ ran = index_urls
        /\ \A i \in DOMAIN result : PassIndexes(result[i]) \subseteq {index_urls[i]}

C5_Witness ==
    /\ pc = "returned"
    /\ Len(index_urls) = 2
    /\ index_urls[1] # index_urls[2]
    /\ result[1].tree # <<>>
    /\ result[2].tree # <<>>

\* The dependency records of the entries of a tree.
DependencyRecords(tree) ==
    UNION {Range(tree[i].dependencies) : i \in DOMAIN tree}

\* C6: every dependency record of every tree entry of a PassResult carries
\* exactly one resolved_versions element per configured index, the j-th one
\* with the URL of the j-th index, whatever the resolutions gave.
CrossIndexAligned(tree) ==
    \A dependency \in DependencyRecords(tree) :
        /\ Len(dependency.resolved_versions) = Len(index_urls)
        /\ \A j \in DOMAIN dependency.resolved_versions :
                dependency.resolved_versions[j].index = index_urls[j]

C6_ResolvedVersionsPerIndex ==
    /\ CrossIndexAligned(packages)
    /\ \A i \in DOMAIN result : CrossIndexAligned(result[i].tree)

C6_Witness ==
    /\ pc = "returned"
    /\ Len(index_urls) = 2
    /\ \E i \in DOMAIN result : \E dependency \in DependencyRecords(result[i].tree) :
        /\ Len(dependency.resolved_versions) = 2
        /\ dependency.resolved_versions[1].versions = <<>>
        /\ dependency.resolved_versions[2].versions # <<>>

RECURSIVE Reverse(_)
Reverse(s) == IF s = <<>> THEN <<>> ELSE Append(Reverse(Tail(s)), Head(s))

\* The keys the resolved_versions of a tree name.
ResolvedKeys(tree) ==
    UNION {{<<dependency.package_name, dependency.resolved_versions[j].versions[v]>> :
                v \in DOMAIN dependency.resolved_versions[j].versions} :
           dependency \in DependencyRecords(tree),
           j \in 1..Len(index_urls)}

\* C7: with transitive=False nothing is added to the queue or to the
\* visited-set after the seed stage: the keys probed are exactly the keys
\* pushed from the requirements, tree holds entries of seed keys only, and
\* the resolved_versions of their dependencies are still computed.
C7_NonTransitiveStaysAtSeeds ==
    /\ [](~transitive =>
            /\ pushed = queue \o Reverse(popped)
            /\ \A i \in DOMAIN packages : \E k \in Range(pushed) :
                    /\ CanonicalKey(k[1]) = packages[i].package_name
                    /\ k[2] = packages[i].package_version
            /\ CrossIndexAligned(packages))
    /\ [][(~transitive /\ pc \in {"drain", "expand"}) =>
            /\ packages_seen' = packages_seen
            /\ pushed' = pushed
            /\ queue' \in {queue, Front(queue)}]_vars

C7_Witness ==
    /\ ~transitive
    /\ pc = "returned"
    /\ popped # <<>>
    /\ packages # <<>>
    /\ ResolvedKeys(packages) \ packages_seen # {}

\* C8: a requirement whose parsed name is in exclude_packages is not
\* resolved, pushes no seed and leaves no unresolved record; the exclusion
\* is made at the seed stage only.
ExcludedSeedStep ==
    /\ pc = "seed"
    /\ req_i <= Len(requirements)
    /\ ParsePython(requirements[req_i]).ok
    /\ ParsePython(requirements[req_i]).name \in exclude_packages

C8_ExcludedNeverSeeded ==
    /\ [](/\ pc = "seed" => \A k \in Range(pushed) : k[1] \notin exclude_packages
          /\ \A i \in DOMAIN unresolved :
                unresolved[i].package_name \notin exclude_packages)
    /\ [][ExcludedSeedStep =>
            /\ "solve" \notin Cmds(ops')
            /\ queue' = queue
            /\ pushed' = pushed
            /\ packages_seen' = packages_seen
            /\ unresolved' = unresolved
            /\ unparsed' = unparsed]_vars

C8_Witness ==
    /\ exclude_packages = {"foo"}
    /\ \E i \in DOMAIN requirements : ParsePython(requirements[i]).ok
            /\ ParsePython(requirements[i]).name = "foo"
    /\ pc = "returned"
    /\ \E k \in ResolvedKeys(packages) : k[1] = "foo"

\* C9: a requirement string that fails to parse adds exactly one record to
\* unparsed and nothing to the queue, the visited-set, tree, errors or
\* unresolved, and the loop goes on with the next requirement.
UnparsedSeedStep ==
    /\ pc = "seed"
    /\ req_i <= Len(requirements)
    /\ ~ParsePython(requirements[req_i]).ok

C9_UnparsedOnly ==
    [][UnparsedSeedStep =>
        /\ Len(unparsed') = Len(unparsed) + 1
        /\ SubSeq(unparsed', 1, Len(unparsed)) = unparsed
        /\ Last(unparsed').requirement = requirements[req_i]
        /\ queue' = queue
        /\ pushed' = pushed
        /\ packages_seen' = packages_seen
        /\ packages' = packages
        /\ errors' = errors
        /\ unresolved' = unresolved
        /\ pc' = "seed"
        /\ req_i' = req_i + 1]_vars

C9_Witness ==
    /\ requirements # <<>>
    /\ ~ParsePython(requirements[1]).ok
    /\ Len(unparsed) = 1
    /\ popped # <<>>
    /\ packages # <<>>

\* C10: a parsed, non-excluded seed requirement whose range gives no version
\* at the pass's own index, by "not found" or by a failure of the resolver,
\* adds one record with this pass's index to unresolved and pushes nothing;
\* a pass that pushed no seed has an empty tree.
NoVersionAt(url, name, version_spec) ==
    \A v \in Range(Published(url, CanonicalKey(name))) : ~Satisfies(v, version_spec)

UnresolvedSeedStep ==
    /\ pc = "seed"
    /\ req_i <= Len(requirements)
    /\ ParsePython(requirements[req_i]).ok
    /\ ParsePython(requirements[req_i]).name \notin exclude_packages
    /\ \/ NoVersionAt(all_solvers[solver_i], ParsePython(requirements[req_i]).name,
                      _get_dependency_specification(ParsePython(requirements[req_i]).spec))
       \/ faults' > faults

C10_UnresolvedAtOwnIndex ==
    /\ [](pushed = <<>> => packages = <<>>)
    /\ [][UnresolvedSeedStep =>
            /\ unresolved' = Append(unresolved,
                    [package_name |-> ParsePython(requirements[req_i]).name,
                     version_spec |-> _get_dependency_specification(
                                            ParsePython(requirements[req_i]).spec),
                     index |-> all_solvers[solver_i]])
            /\ queue' = queue
            /\ pushed' = pushed
            /\ packages_seen' = packages_seen]_vars

C10_Witness ==
    /\ pc = "returned"
    /\ index_urls = <<"idx1", "idx2">>
    /\ result[1].unresolved =
            <<[package_name |-> "pip", version_spec |-> ">=2", index |-> "idx1"]>>
    /\ result[1].tree = <<>>
    /\ result[2].tree # <<>>

\* C11: when the install and the inventory query of a probe succeed and the
\* restoring command (reinstall or uninstall) fails, the probe still hands
\* its inventory entry to the expansion without a record in errors, and the
\* expansion, unless the hash lookup raises, appends the entry of the popped
\* key to tree, attaches the versions resolved at every index to each of its
\* dependencies and, in transitive mode, admits them, errors being left as
\* it was.
RestoreFailed(o) == Failed(o, "reinstall") \/ Failed(o, "uninstall")

C11_RestoreFailureNotFatal ==
    /\ [][(pc = "drain" /\ RestoreFailed(ops')
              /\ CanonicalKey(Last(queue)[1]) = Lower(Last(queue)[1])) =>
            /\ RanOk(ops', "install")
            /\ pc' = "expand"
            /\ errors' = errors
            /\ package_info'[1].package.key = CanonicalKey(Last(queue)[1])
            /\ package_info'[1].package.installed_version = Last(queue)[2]]_vars
    /\ [][(pc = "expand" /\ RestoreFailed(ops) /\ pc' # "raised") =>
            /\ errors' = errors
            /\ Len(packages') = Len(packages) + 1
            /\ Last(packages').package_name = CanonicalKey(Last(popped)[1])
            /\ Last(packages').package_version = Last(popped)[2]
            /\ CrossIndexAligned(<<Last(packages')>>)
            /\ Len(SelectSeq(ops', LAMBDA c : c.cmd = "solve")) =
                    Len(Last(packages').dependencies) * Len(all_solvers)
            /\ transitive => ResolvedKeys(<<Last(packages')>>) \subseteq packages_seen']_vars

C11_Witness ==
    /\ pc = "drain"
    /\ faults = 1
    /\ errors = <<>>
    /\ popped = <<<<"foo", "2">>>>
    /\ env["foo"] = <<"2">>
    /\ Len(packages) = 1
    /\ packages[1].package_name = "foo"
    /\ packages[1].package_version = "2"
    /\ Len(packages[1].dependencies) = 2
    /\ transitive
    /\ <<"my_pkg", "1">> \in Range(queue)

\* C12: the visited-set key is case-insensitive on the name: of two keys
\* with the same version whose names differ only in letter case, at most
\* one is enqueued and probed in a pass.
C12_KeyCaseInsensitive ==
    /\ \A k1, k2 \in Range(pushed) :
            (Lower(k1[1]) = Lower(k2[1]) /\ k1[2] = k2[2]) => k1 = k2
    /\ \A k1, k2 \in Range(popped) :
            (Lower(k1[1]) = Lower(k2[1]) /\ k1[2] = k2[2]) => k1 = k2

\* C13: the visited-set and the queue belong to one pass: every pass starts
\* with both empty, whatever the earlier passes left, the visited-set holds
\* exactly the keys enqueued in the current pass, and so a key probed in an
\* earlier pass is enqueued and probed again in a later pass that reaches it.
C13_VisitedSetPerPass ==
    /\ [](packages_seen = Range(pushed))
    /\ []((pc = "seed" /\ req_i = 1) => (packages_seen = {} /\ queue = <<>>))
    /\ [][solver_i' # solver_i => (packages_seen' = {} /\ queue' = <<>>)]_vars

C13_Witness ==
    /\ solver_i = 2
    /\ pc = "drain"
    /\ result[1].tree # <<>>
    /\ packages # <<>>
    /\ \E k \in Range(popped) : \E i \in DOMAIN result[1].tree :
            /\ result[1].tree[i].package_name = k[1]
            /\ result[1].tree[i].package_version = k[2]
            /\ Last(packages).package_name = k[1]
            /\ Last(packages).package_version = k[2]

\* C14: in transitive mode the expansion of a probed entry puts every
\* version resolved for each of its dependencies at any configured index
\* into the visited-set and enqueues, once, exactly those keys that were
\* not visited before, behind the keys already waiting; a key so admitted
\* is installed from the index of the running pass only, so its install
\* succeeds only for a version that index publishes, and the entry it
\* yields carries that index.
ExpandStep == pc = "expand" /\ pc' = "drain"

C14_TransitiveAdmitsAllIndexes ==
    /\ [][(transitive /\ ExpandStep) =>
            LET found == ResolvedKeys(<<Last(packages')>>)
                new == SubSeq(queue', Len(queue) + 1, Len(queue'))
            IN /\ packages_seen' = packages_seen \cup found
               /\ SubSeq(queue', 1, Len(queue)) = queue
               /\ Range(new) = found \ packages_seen
               /\ \A k \in Range(new) : Count(new, k) = 1]_vars
    /\ [][(pc = "drain" /\ Len(popped') = Len(popped) + 1 /\ RanOk(ops', "install")) =>
            Last(queue)[2] \in
                Range(Published(all_solvers[solver_i], CanonicalKey(Last(queue)[1])))]_vars
    /\ [](\A i \in DOMAIN packages :
            /\ packages[i].index_url = all_solvers[solver_i]
            /\ packages[i].package_version \in
                Range(Published(all_solvers[solver_i], packages[i].package_name)))

C14_Witness ==
    /\ transitive
    /\ faults = 0
    /\ pc = "drain"
    /\ all_solvers[solver_i] = "idx1"
    /\ <<"pip", "2">> \in Range(popped)
    /\ "2" \notin Range(Published("idx1", "pip"))
    /\ \E i \in DOMAIN errors :
            /\ errors[i].package_name = "pip"
            /\ errors[i].version = "2"
            /\ errors[i].index = "idx1"
            /\ errors[i].type = "command_error"

\* C15: the queue is a stack. Keys are pushed at its right end, in discovery
\* order, and the key probed next is the one at its right end: the most
\* recently enqueued key not yet probed. So the first key probed is the last
\* version of the last resolved seed, and the keys discovered by a probe are
\* all probed before any key that was waiting when they were discovered.
NewlyPushed == SubSeq(pushed', Len(pushed) + 1, Len(pushed'))

C15_QueueIsLifo ==
    /\ [][(Len(popped') = Len(popped) + 1) =>
            /\ popped'[Len(popped')] = queue[Len(queue)]
            /\ queue' = SubSeq(queue, 1, Len(queue) - 1)
            /\ popped = <<>> => popped'[1] = pushed[Len(pushed)]]_vars
    /\ [][(pushed' # pushed /\ pushed' # <<>>) =>
            /\ SubSeq(pushed', 1, Len(pushed)) = pushed
            /\ queue' = queue \o NewlyPushed]_vars
    /\ [][(pc = "seed" /\ pushed' # pushed) =>
            LET listed == Published(all_solvers[solver_i], CanonicalKey(NewlyPushed[1][1]))
            IN \A i, j \in DOMAIN NewlyPushed : i < j =>
                    \E m, n \in DOMAIN listed :
                        /\ m < n
                        /\ listed[m] = NewlyPushed[i][2]
                        /\ listed[n] = NewlyPushed[j][2]]_vars

C15_Witness ==
    /\ pc = "drain"
    /\ pushed = <<<<"foo", "1">>, <<"foo", "2">>, <<"Foo", "1">>, <<"my_pkg", "1">>>>
    /\ popped = <<<<"foo", "2">>, <<"my_pkg", "1">>, <<"Foo", "1">>>>
    /\ queue = <<<<"foo", "1">>>>

\* C16: the seed step of a parsed, non-excluded requirement that the index
\* of the pass resolves enqueues one key for every version of the package
\* that index lists and the specifier admits; when the pass returns, every
\* key it enqueued has been probed; and when no probe of the pass failed,
\* tree holds one entry per probed key, in probing order, so one entry per
\* resolved version of a seed range.
PassReturned == pc \in {"passes", "returned"} /\ solver_i > 0

C16_AllSeedVersionsProbed ==
    /\ [][(pc = "seed" /\ req_i' = req_i + 1 /\ RanOk(ops', "solve")) =>
            LET dependency == ParsePython(requirements[req_i])
                admitted == {v \in Range(Published(all_solvers[solver_i],
                                                   CanonicalKey(dependency.name))) :
                                Satisfies(v, _get_dependency_specification(dependency.spec))}
            IN /\ Range(NewlyPushed) = {<<dependency.name, v>> : v \in admitted}
               /\ Len(NewlyPushed) = Cardinality(admitted)
               /\ Range(NewlyPushed) \subseteq Range(queue')]_vars
    /\ [](PassReturned =>
            /\ queue = <<>>
            /\ \A k \in Range(pushed) : Count(popped, k) = Count(pushed, k)
            /\ errors = <<>> =>
                /\ Len(packages) = Len(popped)
                /\ \A i \in DOMAIN packages :
                    /\ packages[i].package_name = CanonicalKey(popped[i][1])
                    /\ packages[i].package_version = popped[i][2])

C16_Witness ==
    /\ pc = "returned"
    /\ requirements = <<"foo>=1,<3">>
    /\ index_urls = <<"idx1">>
    /\ ~transitive
    /\ pushed = <<<<"foo", "1">>, <<"foo", "2">>>>
    /\ Len(result[1].tree) = 2
    /\ result[1].errors = <<>>
    /\ result[1].tree[1].package_name = "foo"
    /\ result[1].tree[1].package_version = "2"
    /\ result[1].tree[2].package_name = "foo"
    /\ result[1].tree[2].package_version = "1"

\* C17: a probe whose initial install fails performs no further step: the
\* failed install is the last command of the probe (no inventory query of
\* the installed package, no hash lookup, no reinstall or uninstall), the
\* environment is left as it was, one command_error record is appended for
\* the popped key and the loop goes on with the next key.
C17_FailedInstallStopsProbe ==
    /\ [](Failed(ops, "install") =>
            /\ ops = <<Cmd("pipdeptree", TRUE), Cmd("install", FALSE)>>
            /\ pc = "drain"
            /\ errors # <<>>
            /\ Last(errors).type = "command_error"
            /\ Last(errors).package_name = Last(popped)[1]
            /\ Last(errors).version = Last(popped)[2])
    /\ [][Failed(ops', "install") =>
            /\ env' = env
            /\ packages' = packages
            /\ package_info' = package_info
            /\ Len(errors') = Len(errors) + 1]_vars

C17_Witness ==
    /\ Failed(ops, "install")
    /\ pc = "drain"
    /\ Last(popped) = <<"foo", "2">>
    /\ Last(errors) = ErrorRecord("foo", all_solvers[solver_i], "2", "command_error")
    /\ env["foo"] = <<>>
    /\ queue # <<>>

\* C18: a probe whose install, inventory query and restoring command all
\* succeed reinstalls the previously installed version of the package when
\* there was one and uninstalls the package otherwise, and leaves the whole
\* environment as it was before the probe. Hence the environment equals the
\* baseline of the pass at the first pop, stays equal to it over every step
\* of the loop in which no inventory query inside the with statement and no
\* restoring command fails, and equals it at every pop of a pass without
\* failures.
ProbeAllOk(o) ==
    /\ RanOk(o, "install")
    /\ \A i \in DOMAIN o : o[i].ok

AtBaseline(e) == _get_environment_details(e) = environment_details

C18_ProbeRestoresEnvironment ==
    /\ [][(pc = "drain" /\ ProbeAllOk(ops')) =>
            /\ env' = env
            /\ RanOk(ops', "reinstall") <=> env[CanonicalKey(Last(queue)[1])] # <<>>
            /\ RanOk(ops', "uninstall") <=> env[CanonicalKey(Last(queue)[1])] = <<>>]_vars
    /\ [][(pc \in {"drain", "expand"} /\ AtBaseline(env)
              /\ ~RestoreFailed(ops')
              /\ ~(RanOk(ops', "install") /\ Failed(ops', "pipdeptree"))) =>
            AtBaseline(env')]_vars
    /\ []((pc = "drain" /\ (popped = <<>> \/ faults = 0)) => AtBaseline(env))

C18_Witness ==
    /\ pc = "expand"
    /\ ProbeAllOk(ops)
    /\ RanOk(ops, "reinstall")
    /\ Last(popped) = <<"pip", "2">>
    /\ package_info[1].package.installed_version = "2"
    /\ env["pip"] = <<"1">>
    /\ AtBaseline(env)

\* C19: every pass over the finite universe of keys ends, cycles among the
\* dependencies included. After the seed stage a key is enqueued only when
\* the visited-set does not hold it, and no key leaves the visited-set
\* during a pass; so the keys pushed after the seeds are pairwise distinct
\* and the number of probes never exceeds the number of keys pushed at the
\* seed stage plus the number of distinct keys of the universe. Every probe
\* lowers the sum of the queue length and the number of unvisited keys by
\* one and the expansion keeps it, so the queue becomes empty.
Universe == Names \X {"1", "2"}

\* The number of keys the seed stage of the running pass has pushed, once
\* that stage is over: the versions resolved for the requirements that were
\* parsed, not excluded and not reported as unresolved.
SeedCount ==
    Len(Flatten([i \in DOMAIN requirements |->
        LET dependency == ParsePython(requirements[i])
            version_spec == _get_dependency_specification(dependency.spec)
        IN IF /\ SeedSolves(requirements[i], exclude_packages)
              /\ UnresolvedRecord(dependency.name, version_spec, all_solvers[solver_i])
                    \notin Range(unresolved)
           THEN SelectSeqBy(Published(all_solvers[solver_i], CanonicalKey(dependency.name)),
                            {v \in {"1", "2"} : Satisfies(v, version_spec)})
           ELSE <<>>]))

Variant == Len(queue) + Cardinality(Universe \ packages_seen)

C19_ProbesBounded ==
    /\ [](pc \in {"drain", "expand"} =>
            /\ Range(pushed) \subseteq Universe
            /\ Len(popped) <= Len(pushed)
            /\ Len(pushed) <= SeedCount + Cardinality(Universe)
            /\ \A i \in DOMAIN pushed : i > SeedCount =>
                    \A j \in 1..(i - 1) : pushed[j] # pushed[i])
    /\ [][(pc \in {"drain", "expand"} /\ pc' \in {"drain", "expand"}) =>
            /\ packages_seen \subseteq packages_seen'
            /\ Variant >= 0
            /\ Variant' = IF popped' # popped THEN Variant - 1 ELSE Variant]_vars
    /\ [][(pc = "drain" /\ pc' = "passes") => queue = <<>>]_vars

C19_Witness ==
    /\ pc = "passes"
    /\ solver_i = 1
    /\ transitive
    /\ all_solvers = <<"idx2", "idx1">>
    /\ requirements = <<"pip>=2">>
    /\ pushed = <<<<"pip", "2">>, <<"foo", "1">>, <<"pip", "1">>>>
    /\ Len(popped) = 3
    /\ Len(packages) = 3
    /\ queue = <<>>

\* C20: in every state of a pass every key in the queue is in the
\* visited-set, and every completed probe has appended exactly one record
\* to exactly one of tree and errors: at every pop the two lengths add up to
\* the number of keys popped so far, between a probe and its expansion to
\* one less, and at the end of the pass to the number of keys ever enqueued.
C20_OneRecordPerProbe ==
    /\ [](Range(queue) \subseteq packages_seen)
    /\ [](pc = "drain" => Len(packages) + Len(errors) = Len(popped))
    /\ [](pc = "expand" => Len(packages) + Len(errors) = Len(popped) - 1)
    /\ [](PassReturned =>
            /\ Len(packages) + Len(errors) = Len(pushed)
            /\ Len(result[solver_i].tree) + Len(result[solver_i].errors) = Len(pushed))
    /\ [][(pc = "drain" /\ Len(popped') = Len(popped) + 1 /\ pc' = "drain") =>
            (Len(errors') = Len(errors) + 1 /\ packages' = packages)]_vars
    /\ [][ExpandStep =>
            (Len(packages') = Len(packages) + 1 /\ errors' = errors)]_vars

C20_Witness ==
    /\ pc = "passes"
    /\ solver_i = 1
    /\ faults = 0
    /\ Len(pushed) = 6
    /\ Len(result[1].tree) = 4
    /\ Len(result[1].errors) = 2
    /\ \E i \in DOMAIN errors : errors[i].type = "not_site_package"
    /\ \E i \in DOMAIN errors : errors[i].type = "command_error"

====
